---- MODULE Spec2Model ----
(***************************************************************************)
(* KenKen as a constraint satisfaction problem: the three model builders   *)
(* of kenken_csp.py (binary_ne_grid, nary_ad_grid, kenken_csp_model) and   *)
(* the three ordering heuristics of heuristics.py (ord_dh, ord_mrv,        *)
(* val_lcv).                                                               *)
(*                                                                         *)
(* A Variable object is a record [id, name, dom]: id is the object's       *)
(* identity (allocation order), dom its fixed domain, a sequence.  A       *)
(* Constraint object is a record [name, scope, sat]: scope a sequence of   *)
(* Variable objects, sat the set of tuples handed to                       *)
(* add_satisfying_tuples.  Python's 0-based indices are kept in the        *)
(* arithmetic and shifted by one where a TLA+ sequence is indexed.         *)
(***************************************************************************)
EXTENDS Integers, Sequences, FiniteSets

VARIABLES
    kenken_grid,   \* the puzzle encoding handed to the builder
    csp,           \* the CSP object the builder returns: [name, vars, cons]
    var_array,     \* the list of lists of Variable objects the builder returns
    pc,            \* "input": nothing built; "built": a builder returned; "search"
    var_ord,       \* the variable ordering the search driver was given
    asg,           \* assigned value per CSP variable (index into csp.vars), 0 = unassigned
    curdom,        \* unpruned values per CSP variable
    trail,         \* the driver's stack of assigned variables
    ret            \* what the last heuristic call returned

vars == <<kenken_grid, csp, var_array, pc, var_ord, asg, curdom, trail, ret>>

-----------------------------------------------------------------------------
(* Bounds of the model *)

\* largest grid dimension N
MaxDim == 2
\* largest cage target
MaxTarget == 3
\* the sizes of the cages (a cage of four cells at dimension 3 has 81 tuples of 24
\* orderings each, too many to enumerate for every such cage, target and operation)
CageSizes == {1, 2, 3}
\* the sizes of a cage that shares a puzzle with a fixed-value cage
SmallCageSizes == {1, 2}

-----------------------------------------------------------------------------
(* Helpers *)

Range(s) == {s[x] : x \in DOMAIN s}

\* all orderings of a set of positions (itertools.permutations works on positions)
RECURSIVE Orderings(_)
Orderings(S) ==
    IF S = {} THEN {<<>>}
    ELSE UNION {{<<x>> \o p : p \in Orderings(S \ {x})} : x \in S}

\* the orderings of the positions of a k-tuple, for every k a cage can have
PermTable == [k \in CageSizes |-> Orderings(1..k)]

IndexPerms(k) == PermTable[k]

\* range(1, dimension + 1) collected into the list `domains`
Domains(dimension) == [x \in 1..dimension |-> x]

\* Variable(name, domain); id stands for the identity of the new object
Variable(id, name, domain) == [id |-> id, name |-> name, dom |-> domain]

\* Constraint(name, scope) followed by add_satisfying_tuples(tuples)
Constraint(name, scope, tuples) == [name |-> name, scope |-> scope, sat |-> tuples]

\* the nested loops that fill `vars`: one Variable per (i, j) of domains x domains
NewGrid(prefix, dimension) ==
    [i \in 1..dimension |->
        [j \in 1..dimension |->
            Variable((i - 1) * dimension + j,
                     [pre |-> prefix, r |-> i, c |-> j],
                     Domains(dimension))]]

\* for x in var1.domain(): for y in var2.domain(): if x != y: append((x, y))
NeTuplesLess(var1, var2) ==
    {t \in Range(var1.dom) \X Range(var2.dom) : t[1] < t[2]}

NeTuples(var1, var2) ==
    {t \in Range(var1.dom) \X Range(var2.dom) : t[1] # t[2]}

\* the body of the i, j, k loops for one (i, j, k), 0-based as in the code:
\* the row constraint when k > j, then the column constraint when k > i
\* (pre, rowpost and colpost are the text the builder puts into the names)
NeStep(grid, i, j, k, pre, rowpost, colpost) ==
    (IF k > j
        THEN <<Constraint([a |-> <<pre, i + 1, j + 1>>, b |-> <<pre, i + 1, k + 1>>, post |-> rowpost],
                          <<grid[i + 1][j + 1], grid[i + 1][k + 1]>>,
                          NeTuples(grid[i + 1][j + 1], grid[i + 1][k + 1]))>>
        ELSE <<>>)
    \o
    (IF k > i
        THEN <<Constraint([a |-> <<pre, i + 1, j + 1>>, b |-> <<pre, k + 1, j + 1>>, post |-> colpost],
                          <<grid[i + 1][j + 1], grid[k + 1][j + 1]>>,
                          NeTuples(grid[i + 1][j + 1], grid[k + 1][j + 1]))>>
        ELSE <<>>)

\* for i in range(dimension): for j in range(dimension): for k in range(len(vars[i]))
\* n counts the (i, j, k) triples in loop order
RECURSIVE NeLoop(_, _, _, _, _, _)
NeLoop(grid, dimension, n, pre, rowpost, colpost) ==
    IF n >= dimension * dimension * dimension THEN <<>>
    ELSE NeStep(grid, n \div (dimension * dimension), (n \div dimension) % dimension,
                n % dimension, pre, rowpost, colpost)
         \o NeLoop(grid, dimension, n + 1, pre, rowpost, colpost)

\* for row in vars: for var in row: csp.add_var(var)
RECURSIVE AddVars(_, _, _)
AddVars(grid, dimension, n) ==
    IF n >= dimension * dimension THEN <<>>
    ELSE <<grid[(n \div dimension) + 1][(n % dimension) + 1]>> \o AddVars(grid, dimension, n + 1)

\* csp.add_constraint(c) for every c of the list: the CSP registers each, in order
AddConstraints(cons) == cons

\* CSP(name), then add_var for every grid variable, then add_constraint for every
\* constraint of `cons`, in list order
NewCSP(name, grid, dimension, cons) ==
    [name |-> name, vars |-> AddVars(grid, dimension, 0), cons |-> AddConstraints(cons)]

-----------------------------------------------------------------------------
(* binary_ne_grid *)

BinaryNeGrid(grid_in) ==
    LET dimension == grid_in[1][1]
        grid == NewGrid("", dimension)
        cons == NeLoop(grid, dimension, 0, "", "", ")")
    IN  [csp |-> NewCSP("binary", grid, dimension, cons), vars |-> grid]

-----------------------------------------------------------------------------
(* nary_ad_grid *)

\* itertools.product(row_var, repeat=2): every pair over the scope, each pair handed
\* to add_satisfying_tuples when the scope holds no duplicate
AdTuples(scope) ==
    IF Len(scope) = Cardinality(Range(scope))
        THEN {<<scope[a], scope[b]>> : a \in DOMAIN scope, b \in DOMAIN scope}
        ELSE {}

\* the body of `for i in range(dimension)`: con (row i) then con1 (column i)
AdStep(grid, dimension, i) ==
    LET row_var == [j \in 1..dimension |-> grid[i + 1][j]]
        col_var == [j \in 1..dimension |-> grid[j][i + 1]]
    IN  << Constraint([a |-> <<"row", i>>, b |-> <<>>, post |-> ""], row_var, AdTuples(row_var)),
           Constraint([a |-> <<"col", i>>, b |-> <<>>, post |-> ""], col_var, AdTuples(col_var)) >>

RECURSIVE AdLoop(_, _, _)
AdLoop(grid, dimension, i) ==
    IF i >= dimension THEN <<>>
    ELSE AdStep(grid, dimension, i) \o AdLoop(grid, dimension, i + 1)

NaryAdGrid(grid_in) ==
    LET dimension == grid_in[1][1]
        grid == NewGrid("", dimension)
        cons == AdLoop(grid, dimension, 0)
    IN  [csp |-> NewCSP("n-ary", grid, dimension, cons), vars |-> grid]

-----------------------------------------------------------------------------
(* kenken_csp_model *)

\* ans = 0; for n in t: ans += n
RECURSIVE SumFrom(_, _)
SumFrom(t, x) == IF x > Len(t) THEN 0 ELSE t[x] + SumFrom(t, x + 1)

\* ans = 1; for n in t: ans *= n
RECURSIVE ProdFrom(_, _)
ProdFrom(t, x) == IF x > Len(t) THEN 1 ELSE t[x] * ProdFrom(t, x + 1)

\* result = perm[0]; i = 1; while i < len(t): result -= perm[i]; i += 1
\* (i is the 0-based position, perm[i + 1] the TLA+ element)
RECURSIVE SubFold(_, _, _)
SubFold(perm, i, result) ==
    IF i < Len(perm) THEN SubFold(perm, i + 1, result - perm[i + 1]) ELSE result

\* result = perm[0]; i = 1; while i < len(t): result //= perm[i]; i += 1
\* (// is floor division; the operands here are positive)
RECURSIVE DivFold(_, _, _)
DivFold(perm, i, result) ==
    IF i < Len(perm) THEN DivFold(perm, i + 1, result \div perm[i + 1]) ELSE result

\* one element of itertools.permutations(t): the tuple read in the order p of its positions
Permuted(t, p) == [x \in 1..Len(t) |-> t[p[x]]]

\* operation == 0: the tuple is kept when its sum is the target
AddOkFromOne(t, target) == 1 + SumFrom(t, 1) = target

AddOk(t, target) == SumFrom(t, 1) = target

\* operation == 3: the tuple is kept when its product is the target
MulOk(t, target) == ProdFrom(t, 1) = target

\* operation == 1: the tuple is appended for every permutation whose fold is the target
SubOkScopeOrder(t, target) == SubFold(t, 1, t[1]) = target

SubOk(t, target) ==
    \E p \in IndexPerms(Len(t)) :
        LET perm == Permuted(t, p) IN SubFold(perm, 1, perm[1]) = target

\* operation == 2: the same with //
DivOk(t, target) ==
    \E p \in IndexPerms(Len(t)) :
        LET perm == Permuted(t, p) IN DivFold(perm, 1, perm[1]) = target

\* itertools.product(*c_vars_domain)
Product(c_vars_domain) ==
    {t \in [1..Len(c_vars_domain) -> UNION {Range(c_vars_domain[x]) : x \in DOMAIN c_vars_domain}] :
        \A x \in DOMAIN c_vars_domain : t[x] \in Range(c_vars_domain[x])}

\* the tuples of satisfied2, as the set add_satisfying_tuples keeps (a tuple that
\* several permutations satisfy is appended several times and stored once)
CageTuples(c_vars_domain, target, operation) ==
    {t \in Product(c_vars_domain) :
        CASE operation = 0 -> AddOk(t, target)
          [] operation = 1 -> SubOk(t, target)
          [] operation = 2 -> DivOk(t, target)
          [] operation = 3 -> MulOk(t, target)
          [] OTHER -> FALSE}

\* i = cell // 10 - 1 and j = cell % 10 - 1
CellI(cell) == (cell \div 10) - 1
CellJ(cell) == (cell % 10) - 1

SingletonCageTransposed(st, dimension, c, d) ==
    LET i == CellI(d[1])
        j == CellJ(d[1])
    IN  [st EXCEPT !.vars[j + 1][i + 1] =
            Variable(dimension * dimension + c, [pre |-> "", r |-> i, c |-> j], <<d[2]>>)]

\* len(kenken_grid[c]) == 2: the grid position is rebound to a new Variable whose
\* domain is [kenken_grid[c][1]]; the Constraint built on the line before is dropped
SingletonCage(st, dimension, c, d) ==
    LET i == CellI(d[1])
        j == CellJ(d[1])
    IN  [st EXCEPT !.vars[i + 1][j + 1] =
            Variable(dimension * dimension + c, [pre |-> "", r |-> i, c |-> j], <<d[2]>>)]

\* len(kenken_grid[c]) > 2: the constraint over the Variable objects the grid holds
\* now, in descriptor order, with the tuples of the cross product that pass
MultiCage(st, c, d) ==
    LET target == d[Len(d) - 1]
        operation == d[Len(d)]
        c_vars == [x \in 1..(Len(d) - 2) |-> st.vars[CellI(d[x]) + 1][CellJ(d[x]) + 1]]
        c_vars_domain == [x \in 1..(Len(d) - 2) |-> c_vars[x].dom]
    IN  [st EXCEPT !.cons = Append(@,
            Constraint([a |-> <<"cage", c>>, b |-> <<>>, post |-> ""], c_vars,
                       CageTuples(c_vars_domain, target, operation)))]

\* for c in range(len(kenken_grid)): c is the 0-based position of the descriptor
RECURSIVE CageLoop(_, _, _, _)
CageLoop(st, grid_in, dimension, c) ==
    IF c >= Len(grid_in) THEN st
    ELSE LET d == grid_in[c + 1]
         IN  CageLoop(IF Len(d) = 2 THEN SingletonCage(st, dimension, c, d)
                      ELSE IF Len(d) > 2 THEN MultiCage(st, c, d)
                      ELSE st,
                      grid_in, dimension, c + 1)

KenkenCspModel(grid_in) ==
    LET dimension == grid_in[1][1]
        st == CageLoop([vars |-> NewGrid("Var ", dimension), cons |-> <<>>],
                       grid_in, dimension, 0)
        cons == st.cons \o NeLoop(st.vars, dimension, 0, "Var ", "", "")
    IN  [csp |-> NewCSP("kenken", st.vars, dimension, cons), vars |-> st.vars]

-----------------------------------------------------------------------------------------------------------------------------------------------------------------------------------------------------------------------------
(* The CSP and Variable operations the heuristics call.  A CSP variable is named *)
(* by its position x in csp.vars, the order of registration.                     *)

\* Variable.is_assigned()
IsAssigned(x) == asg[x] # 0

\* Variable.cur_domain(): the assigned value alone, or the unpruned values in the
\* order of the fixed domain
CurDomain(x) ==
    IF IsAssigned(x) THEN <<asg[x]>>
    ELSE SelectSeq(csp.vars[x].dom, LAMBDA v : v \in curdom[x])

\* Variable.cur_domain_size()
CurDomainSize(x) == Len(CurDomain(x))

\* CSP.get_all_unasgn_vars(): the unassigned variables in registration order
GetAllUnasgnVars == SelectSeq([x \in 1..Len(csp.vars) |-> x], LAMBDA x : ~IsAssigned(x))

\* CSP.get_cons_with_var(var): the constraints whose scope holds the variable
GetConsWithVar(x) == SelectSeq(csp.cons, LAMBDA c : csp.vars[x] \in Range(c.scope))

-----------------------------------------------------------------------------
(* heuristics.py.  None is 0. *)

\* count = 0; for c in cons: count += len(c.get_scope()) - 1
RECURSIVE DegreeCount(_, _)
DegreeCount(cons, n) ==
    IF n > Len(cons) THEN 0 ELSE (Len(cons[n].scope) - 1) + DegreeCount(cons, n + 1)

\* the loop of ord_dh over the unassigned variables from position n on
RECURSIVE OrdDhLoop(_, _, _, _)
OrdDhLoop(unasgn, n, highest_degree, dh_var) ==
    IF n > Len(unasgn) THEN dh_var
    ELSE LET count == DegreeCount(GetConsWithVar(unasgn[n]), 1)
         IN  IF count > highest_degree
                THEN OrdDhLoop(unasgn, n + 1, count, unasgn[n])
                ELSE OrdDhLoop(unasgn, n + 1, highest_degree, dh_var)

\* ord_dh(csp): highest_degree = 0, dh_var = None
OrdDh == OrdDhLoop(GetAllUnasgnVars, 1, 0, 0)

RECURSIVE OrdMrvLoopLastWins(_, _, _, _)
OrdMrvLoopLastWins(unasgn, n, min_domain, min_var) ==
    IF n > Len(unasgn) THEN min_var
    ELSE IF min_domain >= CurDomainSize(unasgn[n])
            THEN OrdMrvLoopLastWins(unasgn, n + 1, CurDomainSize(unasgn[n]), unasgn[n])
            ELSE OrdMrvLoopLastWins(unasgn, n + 1, min_domain, min_var)

\* the loop of ord_mrv over the unassigned variables from position n on
RECURSIVE OrdMrvLoop(_, _, _, _)
OrdMrvLoop(unasgn, n, min_domain, min_var) ==
    IF n > Len(unasgn) THEN min_var
    ELSE IF min_domain > CurDomainSize(unasgn[n])
            THEN OrdMrvLoop(unasgn, n + 1, CurDomainSize(unasgn[n]), unasgn[n])
            ELSE OrdMrvLoop(unasgn, n + 1, min_domain, min_var)

\* min_domain = 999999
InitialMinDomain == 999999

OrdMrvFromFirst == OrdMrvLoop(GetAllUnasgnVars, 1, InitialMinDomain, 1)

\* ord_mrv(csp): min_var = None
OrdMrv == OrdMrvLoop(GetAllUnasgnVars, 1, InitialMinDomain, 0)

\* the local `count` of val_lcv before anything is bound to it
Unbound == -1

\* for v in csp.get_all_unasgn_vars(): count = 0; if domain in v.cur_domain(): count += 1
RECURSIVE LcvInner(_, _, _, _)
LcvInner(unasgn, n, domain, count) ==
    IF n > Len(unasgn) THEN count
    ELSE LcvInner(unasgn, n + 1, domain,
                  IF domain \in Range(CurDomain(unasgn[n])) THEN 0 + 1 ELSE 0)

\* for domain in var.cur_domain(): ...; domains[domain] = count
\* (the dict as its items in insertion order; reading the unbound count raises)
RECURSIVE LcvOuter(_, _, _, _)
LcvOuter(cur, n, count, domains) ==
    IF n > Len(cur) THEN [raised |-> FALSE, items |-> domains]
    ELSE LET c2 == LcvInner(GetAllUnasgnVars, 1, cur[n], count)
         IN  IF c2 = Unbound THEN [raised |-> TRUE, items |-> <<>>]
             ELSE LcvOuter(cur, n + 1, c2, Append(domains, <<cur[n], c2>>))

\* sorted(items, key=operator.itemgetter(1)): a stable sort, by insertion
RECURSIVE InsertByCount(_, _)
InsertByCount(sorted, item) ==
    IF sorted = <<>> THEN <<item>>
    ELSE IF sorted[Len(sorted)][2] <= item[2] THEN Append(sorted, item)
    ELSE Append(InsertByCount(SubSeq(sorted, 1, Len(sorted) - 1), item), sorted[Len(sorted)])

RECURSIVE SortedByCount(_, _)
SortedByCount(items, n) ==
    IF n = 0 THEN <<>> ELSE InsertByCount(SortedByCount(items, n - 1), items[n])

\* val_lcv(csp, var)
ValLcv(x) ==
    LET r == LcvOuter(CurDomain(x), 1, Unbound, <<>>)
    IN  [raised |-> r.raised, items |-> SortedByCount(r.items, Len(r.items))]

-----
(* The puzzle encodings the builders are applied to *)

\* cell identifiers row*10 + column of an N x N board
Cells(N) == {10 * i + j : i, j \in 1..N}

\* two cells that share an edge
Adjacent(c1, c2) == c1 - c2 \in {1, -1, 10, -10}

\* the cells of S reachable from `seen` through shared edges
RECURSIVE Reach(_, _)
Reach(seen, S) ==
    LET more == {c \in S \ seen : \E b \in seen : Adjacent(b, c)}
    IN  IF more = {} THEN seen ELSE Reach(seen \cup more, S)

\* a cage is a connected group of cells
Connected(S) == \E c \in S : Reach({c}, S) = S

\* singleton cage descriptors [cell, value]
Singletons(N) == {<<cell, v>> : cell \in Cells(N), v \in 1..N}

\* the cells of a cage of k cells, listed in any order
CageCells(N, k) ==
    {s \in [1..k -> Cells(N)] :
        /\ \A a, b \in 1..k : a # b => s[a] # s[b]
        /\ Connected(Range(s))}

\* multi-cell cage descriptors [cell, ..., target, operation] with the given sizes
MultiCages(N, sizes) ==
    {s \o <<target, operation>> :
        s \in UNION {CageCells(N, k) : k \in sizes},
        target \in 0..MaxTarget, operation \in 0..3}

\* what the grid-only builders are handed: the dimension, with or without a cage
GridOnly(N) == {<<<<N>>>>} \cup {<<<<N>>, s>> : s \in Singletons(N)}

\* what kenken_csp_model is handed: [[N]] followed by one cage of any kind, by two
\* fixed-value cages, or by a fixed-value cage and a cage of one or two cells in
\* either order (cages may name the same cell)
KenkenGrids(N) ==
    LET S == Singletons(N)
        M == MultiCages(N, CageSizes)
        P == MultiCages(N, SmallCageSizes)
    IN  {<<<<N>>>>}
        \cup {<<<<N>>, d>> : d \in S \cup M}
        \cup {<<<<N>>, s, d>> : s \in S, d \in S \cup P}
        \cup {<<<<N>>, d, s>> : d \in P, s \in S}

-----------------------------------------------------------------------------
(* The builders as steps *)

NoRet == [op |-> "none", arg |-> 0, var |-> 0, items |-> <<>>, raised |-> FALSE]

Init ==
    /\ kenken_grid \in {<<<<N>>>> : N \in 1..MaxDim}
    /\ csp = [name |-> "", vars |-> <<>>, cons |-> <<>>]
    /\ var_array = <<>>
    /\ pc = "input"
    /\ var_ord = "none"
    /\ asg = <<>>
    /\ curdom = <<>>
    /\ trail = <<>>
    /\ ret = NoRet

Return(grid_in, r) ==
    /\ kenken_grid' = grid_in
    /\ csp' = r.csp
    /\ var_array' = r.vars
    /\ pc' = "built"
    /\ UNCHANGED <<var_ord, asg, curdom, trail, ret>>

\* csp, var_array = binary_ne_grid(kenken_grid)
CallBinaryNeGrid ==
    /\ pc = "input"
    /\ \E grid_in \in GridOnly(kenken_grid[1][1]) : Return(grid_in, BinaryNeGrid(grid_in))

\* csp, var_array = nary_ad_grid(kenken_grid)
CallNaryAdGrid ==
    /\ pc = "input"
    /\ \E grid_in \in GridOnly(kenken_grid[1][1]) : Return(grid_in, NaryAdGrid(grid_in))

\* csp, var_array = kenken_csp_model(kenken_grid)
CallKenkenCspModel ==
    /\ pc = "input"
    /\ \E grid_in \in KenkenGrids(kenken_grid[1][1]) : Return(grid_in, KenkenCspModel(grid_in))

Next ==
    \/ CallBinaryNeGrid
    \/ CallNaryAdGrid
    \/ CallKenkenCspModel

Spec == Init /\ [][Next]_vars

-----------------------------------------------------------------------------------------------------------------------------------------------------
(* The search engine that calls the heuristics: backtracking with forward       *)
(* checking over a compiled model.  It asks var_ord for the next variable,      *)
(* assigns it a value of its current domain, prunes, and undoes on backtrack.   *)

\* the position in csp.vars of a Variable object
IndexOf(v) == CHOOSE x \in DOMAIN csp.vars : csp.vars[x] = v

\* constraint c, all of whose variables but x are assigned in `a`, allows x = v
Supports(c, a, x, v) ==
    [k \in DOMAIN c.scope |-> IF c.scope[k] = csp.vars[x] THEN v ELSE a[IndexOf(c.scope[k])]]
        \in c.sat

\* forward checking: the values of x that every constraint with x as its only
\* unassigned variable allows
Checked(a, x) ==
    {v \in Range(csp.vars[x].dom) :
        \A n \in DOMAIN csp.cons :
            (/\ csp.vars[x] \in Range(csp.cons[n].scope)
             /\ \A k \in DOMAIN csp.cons[n].scope :
                    csp.cons[n].scope[k] # csp.vars[x] => a[IndexOf(csp.cons[n].scope[k])] # 0)
            => Supports(csp.cons[n], a, x, v)}

\* the puzzles searched: the bare grid, or one cage (a fixed value, or an addition
\* cage of one or two cells with target N + 1)
SearchGrids(N) ==
    {<<<<N>>>>}
    \cup {<<<<N>>, d>> : d \in Singletons(N)}
    \cup {<<<<N>>, d>> : d \in {m \in MultiCages(N, SmallCageSizes) :
                                    m[Len(m)] = 0 /\ m[Len(m) - 1] = N + 1}}

SearchModels ==
    UNION {{[grid |-> <<<<N>>>>, built |-> BinaryNeGrid(<<<<N>>>>)]}
           \cup {[grid |-> g, built |-> KenkenCspModel(g)] : g \in SearchGrids(N)} : N \in 1..MaxDim}

SearchInit ==
    \E m \in SearchModels :
        /\ kenken_grid = m.grid
        /\ csp = m.built.csp
        /\ var_array = m.built.vars
        /\ pc = "search"
        /\ var_ord \in {"ord_dh", "ord_mrv"}
        /\ asg = [x \in DOMAIN m.built.csp.vars |-> 0]
        /\ curdom = [x \in DOMAIN m.built.csp.vars |-> Range(m.built.csp.vars[x].dom)]
        /\ trail = <<>>
        /\ ret = NoRet

\* var = ord_dh(csp)
CallOrdDh ==
    /\ pc = "search"
    /\ ret' = [NoRet EXCEPT !.op = "ord_dh", !.var = OrdDh]
    /\ UNCHANGED <<kenken_grid, csp, var_array, pc, var_ord, asg, curdom, trail>>

\* var = ord_mrv(csp)
CallOrdMrv ==
    /\ pc = "search"
    /\ ret' = [NoRet EXCEPT !.op = "ord_mrv", !.var = OrdMrv]
    /\ UNCHANGED <<kenken_grid, csp, var_array, pc, var_ord, asg, curdom, trail>>

\* values = val_lcv(csp, var), for any variable of the CSP
CallValLcv ==
    /\ pc = "search"
    /\ \E x \in DOMAIN csp.vars :
          ret' = [NoRet EXCEPT !.op = "val_lcv", !.arg = x,
                               !.items = ValLcv(x).items, !.raised = ValLcv(x).raised]
    /\ UNCHANGED <<kenken_grid, csp, var_array, pc, var_ord, asg, curdom, trail>>

\* the engine assigns the variable its ordering returned a value of its current
\* domain and forward-checks
Assign ==
    /\ pc = "search"
    /\ ret.op = var_ord
    /\ ret.var # 0
    /\ \E val \in Range(CurDomain(ret.var)) :
          LET a == [asg EXCEPT ![ret.var] = val]
          IN  /\ asg' = a
              /\ curdom' = [x \in DOMAIN curdom |-> IF a[x] # 0 THEN curdom[x] ELSE Checked(a, x)]
    /\ trail' = Append(trail, ret.var)
    /\ ret' = NoRet
    /\ UNCHANGED <<kenken_grid, csp, var_array, pc, var_ord>>

\* the engine undoes its last assignment and restores what it pruned
Backtrack ==
    /\ pc = "search"
    /\ trail # <<>>
    /\ LET a == [asg EXCEPT ![trail[Len(trail)]] = 0]
       IN  /\ asg' = a
           /\ curdom' = [x \in DOMAIN curdom |-> IF a[x] # 0 THEN curdom[x] ELSE Checked(a, x)]
    /\ trail' = SubSeq(trail, 1, Len(trail) - 1)
    /\ ret' = NoRet
    /\ UNCHANGED <<kenken_grid, csp, var_array, pc, var_ord>>

SearchNext ==
    \/ CallOrdDh
    \/ CallOrdMrv
    \/ CallValLcv
    \/ Assign
    \/ Backtrack

SearchSpec == SearchInit /\ [][SearchNext]_vars

-----
(* What the claims speak of, stated from the puzzle encoding alone *)

\* the dimension in the encoding's first descriptor
Dim == kenken_grid[1][1]

\* the positions of the encoding that hold a fixed-value cage / a multi-cell cage
IsSingleton(c) == Len(kenken_grid[c]) = 2
IsMulti(c) == Len(kenken_grid[c]) > 2

\* the cells, target and operation of the multi-cell cage at position c
CageOf(c) == SubSeq(kenken_grid[c], 1, Len(kenken_grid[c]) - 2)
TargetOf(c) == kenken_grid[c][Len(kenken_grid[c]) - 1]
OperationOf(c) == kenken_grid[c][Len(kenken_grid[c])]

\* the row and the column (from 1) a cell identifier names
RowOf(cell) == cell \div 10
ColOf(cell) == cell % 10

\* the fixed-value cages naming `cell` among the positions before c
FixedBefore(c, cell) == {b \in 1..(c - 1) : IsSingleton(b) /\ kenken_grid[b][1] = cell}

Latest(B) == CHOOSE b \in B : \A other \in B : other <= b

\* the values a cell may take when the cage at position c is compiled
ValuesAt(c, cell) ==
    IF FixedBefore(c, cell) = {} THEN 1..Dim
    ELSE {kenken_grid[Latest(FixedBefore(c, cell))][2]}

\* the constraint compiled for the multi-cell cage at position c: cage constraints
\* come first in the CSP, in the order of their descriptors
CageConstraint(c) == csp.cons[Cardinality({b \in 1..c : IsMulti(b)})]

\* the tuples over the cage's cells, one admissible value per cell
Candidates(c) ==
    {t \in [1..Len(CageOf(c)) -> 1..Dim] :
        \A x \in 1..Len(CageOf(c)) : t[x] \in ValuesAt(c, CageOf(c)[x])}

RECURSIVE SumOver(_, _)
SumOver(t, X) == IF X = {} THEN 0 ELSE LET x == CHOOSE y \in X : TRUE IN t[x] + SumOver(t, X \ {x})

RECURSIVE ProductOver(_, _)
ProductOver(t, X) == IF X = {} THEN 1 ELSE LET x == CHOOSE y \in X : TRUE IN t[x] * ProductOver(t, X \ {x})

BuiltBy(name) == pc = "built" /\ csp.name = name

\* the Variable objects of the returned board
BoardVariables == {var_array[i][j] : i, j \in 1..Dim}

-----------------------------------------------------------------------------
(* C1: binary_ne_grid emits exactly one binary constraint for each unordered pair *)
(* of distinct cells that share a row or a column and none for any other pair, and *)
(* the satisfying tuples of each are exactly the pairs (x, y) of 1..N with x # y,  *)
(* N*(N-1) of them.                                                                *)
C1_BinaryNeGrid ==
    BuiltBy("binary") =>
        /\ \A p, q \in (1..Dim) \X (1..Dim) :
              p # q =>
                Cardinality({n \in DOMAIN csp.cons :
                                Range(csp.cons[n].scope) = {var_array[p[1]][p[2]], var_array[q[1]][q[2]]}})
                  = IF p[1] = q[1] \/ p[2] = q[2] THEN 1 ELSE 0
        /\ \A n \in DOMAIN csp.cons :
              /\ Len(csp.cons[n].scope) = 2
              /\ csp.cons[n].scope[1] # csp.cons[n].scope[2]
              /\ Range(csp.cons[n].scope) \subseteq BoardVariables
              /\ csp.cons[n].sat = {<<x, y>> : x, y \in 1..Dim} \ {<<x, x>> : x \in 1..Dim}
              /\ Cardinality(csp.cons[n].sat) = Dim * (Dim - 1)

C1_Witness ==
    /\ BuiltBy("binary")
    /\ Dim = 2
    /\ Len(csp.cons) = 4
    /\ csp.cons[1].sat = {<<1, 2>>, <<2, 1>>}

(* C2: for a cage with operation subtract or integer-divide, a tuple of the cross  *)
(* product of the cells' domains is a satisfying tuple, in scope order, exactly    *)
(* when some ordering of its values folded left to right with - (with //) gives    *)
(* the target: when one of its values, less all the others (divided by the product *)
(* of all the others), is the target.                                              *)
C2_SubtractDivide ==
    BuiltBy("kenken") =>
        \A c \in DOMAIN kenken_grid :
            IsMulti(c) /\ OperationOf(c) \in {1, 2} =>
                CageConstraint(c).sat =
                    {t \in Candidates(c) :
                        \E a \in DOMAIN t :
                            IF OperationOf(c) = 1
                                THEN t[a] - SumOver(t, DOMAIN t \ {a}) = TargetOf(c)
                                ELSE t[a] \div ProductOver(t, DOMAIN t \ {a}) = TargetOf(c)}

C2_Witness ==
    /\ BuiltBy("kenken")
    /\ kenken_grid = << <<2>>, <<11, 12, 1, 1>> >>
    /\ csp.cons[1].sat = {<<1, 2>>, <<2, 1>>}

(* C3: for a cage with operation add or multiply, the scope is the cage's cells in *)
(* descriptor order and the satisfying tuples are exactly the tuples of the cross  *)
(* product of the cells' domains whose sum (product) is the target.                *)
C3_AddMultiply ==
    BuiltBy("kenken") =>
        \A c \in DOMAIN kenken_grid :
            IsMulti(c) /\ OperationOf(c) \in {0, 3} =>
                /\ Len(CageConstraint(c).scope) = Len(CageOf(c))
                /\ \A x \in DOMAIN CageOf(c) :
                      /\ Range(CageConstraint(c).scope[x].dom) = ValuesAt(c, CageOf(c)[x])
                      /\ FixedBefore(c, CageOf(c)[x]) = {} =>
                            CageConstraint(c).scope[x].name =
                                [pre |-> "Var ", r |-> RowOf(CageOf(c)[x]), c |-> ColOf(CageOf(c)[x])]
                      /\ FixedBefore(c, CageOf(c)[x]) # {} =>
                            CageConstraint(c).scope[x].name =
                                [pre |-> "", r |-> RowOf(CageOf(c)[x]) - 1, c |-> ColOf(CageOf(c)[x]) - 1]
                /\ CageConstraint(c).sat =
                      {t \in Candidates(c) :
                          IF OperationOf(c) = 0
                              THEN SumOver(t, DOMAIN t) = TargetOf(c)
                              ELSE ProductOver(t, DOMAIN t) = TargetOf(c)}

C3_Witness ==
    /\ BuiltBy("kenken")
    /\ kenken_grid = << <<2>>, <<12, 11, 3, 0>> >>
    /\ csp.cons[1].sat = {<<1, 2>>, <<2, 1>>}
    /\ csp.cons[1].scope[1].name = [pre |-> "Var ", r |-> 1, c |-> 2]

\* the fixed-value cages naming `cell` anywhere in the encoding
FixedOn(cell) == FixedBefore(Len(kenken_grid) + 1, cell)

\* the CSP's variable registered for the board position (i, j)
Registered(i, j) == csp.vars[(i - 1) * Dim + j]

\* the board position (i, j) holds the Variable the grid was first given
Untouched(i, j) ==
    /\ var_array[i][j].name = [pre |-> "Var ", r |-> i, c |-> j]
    /\ var_array[i][j].dom = [x \in 1..Dim |-> x]

\* what a fixed-value cage [cell, v] at position c is claimed to leave behind
FixedTo(c) ==
    LET cell == kenken_grid[c][1]
        v == kenken_grid[c][2]
    IN  /\ var_array[RowOf(cell)][ColOf(cell)].dom = <<v>>
        /\ Registered(RowOf(cell), ColOf(cell)) = var_array[RowOf(cell)][ColOf(cell)]

OnlyNamedCellsChange ==
    /\ Len(csp.vars) = Dim * Dim
    /\ \A i, j \in 1..Dim : FixedOn(10 * i + j) = {} => Untouched(i, j) /\ Registered(i, j) = var_array[i][j]

(* C4 as stated: for every fixed-value cage [cell, v] the returned board holds, at  *)
(* the cell's position, a variable whose domain is <<v>>, the one the CSP has for   *)
(* that cell, and no other position is changed.                                     *)
C4_EverySingleton ==
    BuiltBy("kenken") =>
        /\ \A c \in DOMAIN kenken_grid : IsSingleton(c) => FixedTo(c)
        /\ OnlyNamedCellsChange

(* C4 amended: the same for every fixed-value cage that no later fixed-value cage   *)
(* names the cell of (the last descriptor of a cell decides its domain).            *)
C4_LastSingleton ==
    BuiltBy("kenken") =>
        /\ \A c \in DOMAIN kenken_grid :
              IsSingleton(c) /\ Latest(FixedOn(kenken_grid[c][1])) = c => FixedTo(c)
        /\ OnlyNamedCellsChange

C4_Witness ==
    /\ BuiltBy("kenken")
    /\ kenken_grid = << <<2>>, <<12, 1>>, <<12, 2>> >>
    /\ var_array[1][2].dom = <<2>>
    /\ csp.vars[2] = var_array[1][2]
    /\ Untouched(2, 1)

(* C8: every satisfying tuple of every constraint of the three builders is as long  *)
(* as the constraint's scope and holds a domain value per scope position; the 2N    *)
(* constraints of nary_ad_grid have the N variables of a row or column as scope and *)
(* tuples of pairwise different entries.                                            *)
C8_TupleShape ==
    pc = "built" =>
        /\ \A n \in DOMAIN csp.cons : \A t \in csp.cons[n].sat :
              /\ Len(t) = Len(csp.cons[n].scope)
              /\ csp.name = "n-ary" => \A a, b \in DOMAIN t : a # b => t[a] # t[b]
              /\ csp.name # "n-ary" =>
                    \A x \in DOMAIN t : t[x] \in Range(csp.cons[n].scope[x].dom)
        /\ csp.name = "n-ary" =>
              /\ Len(csp.cons) = 2 * Dim
              /\ \A n \in DOMAIN csp.cons :
                    /\ Len(csp.cons[n].scope) = Dim
                    /\ \/ \E i \in 1..Dim : csp.cons[n].scope = [j \in 1..Dim |-> var_array[i][j]]
                       \/ \E j \in 1..Dim : csp.cons[n].scope = [i \in 1..Dim |-> var_array[i][j]]

(* C10: after kenken_csp_model the CSP's variables are exactly the N*N variables of *)
(* the returned board, one per cell, and every variable in the scope of a           *)
(* constraint of the CSP is one of them.                                            *)
C10_ScopesOnBoard ==
    BuiltBy("kenken") =>
        /\ Len(csp.vars) = Dim * Dim
        /\ \A i, j \in 1..Dim : Registered(i, j) = var_array[i][j]
        /\ \A n \in DOMAIN csp.cons : Range(csp.cons[n].scope) \subseteq BoardVariables

-----------------------------------------------------------------------------
(* The heuristics' claims.  `ret` is what the last call returned, and the search *)
(* state has not changed since: every step of the engine clears it.              *)

Unassigned == {x \in DOMAIN csp.vars : asg[x] = 0}

\* the sum, over the constraints holding the variable, of scope size - 1
Degree(x) ==
    LET holding == {n \in DOMAIN csp.cons : csp.vars[x] \in Range(csp.cons[n].scope)}
    IN  SumOver([n \in holding |-> Len(csp.cons[n].scope) - 1], holding)

\* the number of values an unassigned variable has left
Remaining(x) == Cardinality(curdom[x] \cap Range(csp.vars[x].dom))

(* C5: with an unassigned variable left, ord_dh returns an unassigned variable of *)
(* maximal degree, the first such in the order of unassigned variables.           *)
C5_OrdDh ==
    pc = "search" /\ ret.op = "ord_dh" /\ Unassigned # {} =>
        /\ ret.var \in Unassigned
        /\ \A y \in Unassigned : Degree(y) <= Degree(ret.var)
        /\ \A y \in Unassigned : y < ret.var => Degree(y) < Degree(ret.var)

(* C6: with an unassigned variable left, ord_mrv returns the unassigned variable   *)
(* with the fewest values in its current domain, the first such in the order of    *)
(* unassigned variables.                                                           *)
C6_OrdMrv ==
    pc = "search" /\ ret.op = "ord_mrv" /\ Unassigned # {} =>
        /\ ret.var \in Unassigned
        /\ \A y \in Unassigned : Remaining(ret.var) <= Remaining(y)
        /\ \A y \in Unassigned : y < ret.var => Remaining(ret.var) < Remaining(y)

\* ord_mrv passed over earlier variables with more values and chose among equals
C6_Witness ==
    /\ pc = "search"
    /\ ret.op = "ord_mrv"
    /\ ret.var \in Unassigned
    /\ \E y \in Unassigned : y < ret.var /\ Remaining(y) > Remaining(ret.var)
    /\ \E y \in Unassigned : y > ret.var /\ Remaining(y) = Remaining(ret.var)

(* C7: val_lcv(csp, var) returns one (value, count) pair for each value of var's   *)
(* current domain, in ascending order of count, the count being the number of      *)
(* other unassigned variables whose current domain holds the value; also when no   *)
(* other variable, or none at all, is unassigned.                                  *)
C7_ValLcv ==
    pc = "search" /\ ret.op = "val_lcv" =>
        /\ ~ret.raised
        /\ Len(ret.items) = Len(CurDomain(ret.arg))
        /\ {ret.items[n][1] : n \in DOMAIN ret.items} = Range(CurDomain(ret.arg))
        /\ \A n \in DOMAIN ret.items :
              ret.items[n][2] =
                  Cardinality({y \in Unassigned \ {ret.arg} : ret.items[n][1] \in Range(CurDomain(y))})
        /\ \A n, m \in DOMAIN ret.items : n < m => ret.items[n][2] <= ret.items[m][2]

(* C9: with no unassigned variable, ord_dh and ord_mrv return None, raise nothing  *)
(* and leave every assignment and every current domain as it was.                  *)
C9_NoSelection ==
    [][(pc = "search" /\ Unassigned = {} /\ ret'.op \in {"ord_dh", "ord_mrv"})
          => (ret'.var = 0 /\ ~ret'.raised /\ asg' = asg /\ curdom' = curdom)]_vars

C9_Witness ==
    /\ pc = "search"
    /\ Dim = 2
    /\ Unassigned = {}
    /\ ret.op = "ord_mrv"
    /\ ret.var = 0

====
